---------------------------- MODULE Spec2Model ----------------------------
(***************************************************************************)
(* Single-bubble sonoluminescence simulator: the SonolumiPhysics model and *)
(* the Simulator facade that owns it and caches its outputs.               *)
(*                                                                         *)
(* Numbers.  The C++ code computes in double; the model computes in fixed  *)
(* point on integers:                                                      *)
(*   - radii are in 1e-6 mm (0.005 mm = 5000), pressures in 1e-2 atm,      *)
(*     temperatures in whole model units, light in 1/One;                  *)
(*   - m_time counts steps of 1/FPS second;                                *)
(*   - inside simulate_step, times are measured in 1/(FPS * frequency)     *)
(*     second, the unit in which both m_time and the period 1/frequency    *)
(*     are integers (m_time * frequency and FPS), so fmod is exact;        *)
(*   - angles are in 1/HalfTurn of pi, sin and exp results in 1/One;       *)
(*   - where the exact elapsed time lies on a boundary of the waveform (a  *)
(*     whole number of periods, or 0.9 of a period into one), the side the *)
(*     double computation takes is the one IEEE-754 arithmetic gives       *)
(*     (RoundsBelow).                                                      *)
(***************************************************************************)
EXTENDS Integers, FiniteSets, Sequences, TLC

\* ------------------------------------------------------------ bounds
\* step() calls per instance in the single-instance and lockstep runs
MaxSteps == 11
\* step() calls per instance when two instances run independently
MaxPairSteps == 2

\* --------------------------------------------------- program constants
FPS == 60
DefaultFrequency == 20000
DefaultPressure == 135
DefaultRadius == 5000
EmissionFloor == 1000
EmissionScale == 10000
TemperatureScale == 50000

\* fixed-point unit of sin, exp, ratios and light
One == 1000
\* angle units in pi
HalfTurn == 60

\* ------------------------------------------------------ input domains
FrequencySet == {DefaultFrequency, 54, 59}
PressureSet == {DefaultPressure, 100}
RadiusSet == {DefaultRadius, 2000, 0 - 2000, 0}
ValidRadiusSet == {r \in RadiusSet : r > 0}
GasSet == {"Argon", "Xenon"}
LiquidSet == {"Water", "Glycerin"}
Instances == {1, 2}

\* ----------------------------------------------------- double arithmetic
Abs(x) == IF x < 0 THEN 0 - x ELSE x

\* a / b, rounded towards zero
FixDiv(a, b) ==
    IF (a < 0) = (b < 0) THEN Abs(a) \div Abs(b) ELSE 0 - (Abs(a) \div Abs(b))

\* a * x for a fixed-point factor x (in 1/One)
FixMul(a, x) == FixDiv(a * x, One)

\* sin of 0 .. pi/2 in steps of pi/HalfTurn, in 1/One
SinTable ==
    << 0, 52, 105, 156, 208, 259, 309, 358, 407, 454, 500, 545, 588, 629, 669,
       707, 743, 777, 809, 839, 866, 891, 914, 934, 951, 966, 978, 988, 995,
       999, 1000 >>

\* sin(angle * pi / HalfTurn) for an angle in 0 .. HalfTurn
Sin(angle) ==
    IF 2 * angle <= HalfTurn
    THEN SinTable[angle + 1]
    ELSE SinTable[(HalfTurn - angle) + 1]

RECURSIVE ExpSeries(_, _, _)
\* the terms of exp's power series from the k-th on, in 1/One
ExpSeries(x, k, term) ==
    IF term = 0 THEN 0
    ELSE term + ExpSeries(x, k + 1, FixDiv(term * x, k * One))

\* exp(x) for x >= 0 in 1/One
Exp(x) == ExpSeries(x, 1, One)

\* ------------------------------------------------------ SonolumiPhysics
SonolumiPhysics ==
    [ m_frequency_hz |-> 0, m_pressure_atm |-> 0, m_ambient_radius_mm |-> 0,
      m_gas_type |-> "", m_liquid_type |-> "",
      m_time |-> 0, m_current_radius |-> 0,
      m_max_temperature |-> 0, m_light_intensity |-> 0 ]

set_frequency(ph, freq_hz) == [ph EXCEPT !.m_frequency_hz = freq_hz]

\* a slip: the pressure stored in the frequency field
set_pressure_into_frequency(ph, pressure_atm) ==
    [ph EXCEPT !.m_pressure_atm = pressure_atm, !.m_frequency_hz = pressure_atm]

set_pressure(ph, pressure_atm) == [ph EXCEPT !.m_pressure_atm = pressure_atm]

\* a slip: the current radius not reinitialised
set_ambient_radius_keeps_current(ph, radius_mm) ==
    [ph EXCEPT !.m_ambient_radius_mm = radius_mm]

set_ambient_radius(ph, radius_mm) ==
    [ph EXCEPT !.m_ambient_radius_mm = radius_mm, !.m_current_radius = radius_mm]

set_gas_type(ph, type) == [ph EXCEPT !.m_gas_type = type]

set_liquid_type(ph, type) == [ph EXCEPT !.m_liquid_type = type]

model_thermal_emission(temp) ==
    IF temp < EmissionFloor THEN 0
    ELSE Exp(FixDiv((temp - EmissionFloor) * One, EmissionScale))

\* 1.0 / m_frequency_hz, in 1/(FPS * m_frequency_hz) second
period == FPS

\* The (steps, frequency) pairs, up to 14 steps, at which the exact elapsed
\* time lies on a boundary of the waveform and the doubles of lines 28 to 35
\* (m_time summed from 1.0 / 60.0, period = 1.0 / m_frequency_hz, fmod, the
\* comparison with period * 0.9) fall below it.  At <<6, 20000>> fmod yields
\* just under one period instead of 0; at <<11, 54>> the comparison
\* t_in_period < period * 0.9 is true where both sides are exactly equal.
RoundsBelow ==
    { << 6, 20000 >>, << 9, 20000 >>, << 12, 20000 >>, << 6, 59 >>, << 11, 54 >> }

\* fmod(m_time, period) for the elapsed time `time`: 0 .. period - 1, and
\* period for a result just under one period
t_in_period(time, freq_hz) ==
    LET exact == (time * freq_hz) % period
    IN  IF exact = 0 /\ << time, freq_hz >> \in RoundsBelow THEN period ELSE exact

\* t_in_period < period * 0.9
InExpansion(time, freq_hz) ==
    LET tin == t_in_period(time, freq_hz)
        boundary == FixDiv(period * 9, 10)
    IN  tin < boundary \/ (tin = boundary /\ << time, freq_hz >> \in RoundsBelow)

\* m_ambient_radius_mm * (1.0 + 1.0 * sin(t_in_period / period * M_PI))
ExpansionRadius(ambient, tin) ==
    FixMul(ambient, One + Sin(FixDiv(tin * HalfTurn, period)))

\* m_ambient_radius_mm * (1.0 - 0.5 * sin((t_in_period - period * 0.9) / (period * 0.1) * M_PI))
CollapseRadius(ambient, tin) ==
    FixMul(ambient,
           One - FixDiv(Sin(FixDiv((tin - FixDiv(period * 9, 10)) * HalfTurn,
                                   FixDiv(period, 10))), 2))

\* a slip: <= for <
Heats_inclusive(radius, ambient) == radius <= FixDiv(ambient, 2)

\* m_current_radius < m_ambient_radius_mm * 0.5
Heats(radius, ambient) == radius < FixDiv(ambient, 2)

\* 50000.0 * (m_ambient_radius_mm * 0.5 / m_current_radius)
CollapseTemperature(radius, ambient) ==
    FixMul(TemperatureScale, FixDiv(FixDiv(ambient, 2) * One, radius))

simulate_step(ph) ==
    LET time == ph.m_time + 1
        tin == t_in_period(time, ph.m_frequency_hz)
        ambient == ph.m_ambient_radius_mm
    IN  IF InExpansion(time, ph.m_frequency_hz)
        THEN [ph EXCEPT !.m_time = time,
                        !.m_current_radius = ExpansionRadius(ambient, tin),
                        !.m_max_temperature = 0]
        ELSE LET radius == CollapseRadius(ambient, tin)
             IN  IF Heats(radius, ambient)
                 THEN LET temp == CollapseTemperature(radius, ambient)
                      IN  [ph EXCEPT !.m_time = time,
                                     !.m_current_radius = radius,
                                     !.m_max_temperature = temp,
                                     !.m_light_intensity = model_thermal_emission(temp)]
                 ELSE [ph EXCEPT !.m_time = time,
                                 !.m_current_radius = radius,
                                 !.m_max_temperature = 0,
                                 !.m_light_intensity = 0]

get_radius(ph) == ph.m_current_radius
get_max_temperature(ph) == ph.m_max_temperature
get_emitted_light(ph) == ph.m_light_intensity

\* ------------------------------------------------------------ Simulator
\* a slip: "reset simulation state" taken to include the elapsed time
set_parameters_resets_time(s, frequency_hz, pressure_atm, radius_mm, gas_type, liquid_type) ==
    [ physics |->
          [set_liquid_type(
              set_gas_type(
                  set_ambient_radius(
                      set_pressure(set_frequency(s.physics, frequency_hz), pressure_atm),
                      radius_mm),
                  gas_type),
              liquid_type) EXCEPT !.m_time = 0],
      current_bubble_radius |-> radius_mm,
      current_peak_temperature |-> 0,
      current_light_intensity |-> 0 ]

set_parameters(s, frequency_hz, pressure_atm, radius_mm, gas_type, liquid_type) ==
    [ physics |->
          set_liquid_type(
              set_gas_type(
                  set_ambient_radius(
                      set_pressure(set_frequency(s.physics, frequency_hz), pressure_atm),
                      radius_mm),
                  gas_type),
              liquid_type),
      current_bubble_radius |-> radius_mm,
      current_peak_temperature |-> 0,
      current_light_intensity |-> 0 ]

Simulator ==
    set_parameters(
        [ physics |-> SonolumiPhysics, current_bubble_radius |-> 0,
          current_peak_temperature |-> 0, current_light_intensity |-> 0 ],
        DefaultFrequency, DefaultPressure, DefaultRadius, "Argon", "Water")

\* a slip: the light intensity not copied out
step_skips_light(s) ==
    LET stepped == simulate_step(s.physics)
    IN  [ physics |-> stepped,
          current_bubble_radius |-> get_radius(stepped),
          current_peak_temperature |-> get_max_temperature(stepped),
          current_light_intensity |-> s.current_light_intensity ]

step(s) ==
    LET stepped == simulate_step(s.physics)
    IN  [ physics |-> stepped,
          current_bubble_radius |-> get_radius(stepped),
          current_peak_temperature |-> get_max_temperature(stepped),
          current_light_intensity |-> get_emitted_light(stepped) ]

get_bubble_radius(s) == s.current_bubble_radius
get_peak_temperature(s) == s.current_peak_temperature
get_light_intensity(s) == s.current_light_intensity

\* ---------------------------------------------------------------- state
\* sim[i]: the i-th Simulator object.  call[i]: what its caller last did and
\* saw (the last call, its radius argument, the value an accessor returned,
\* the number of step() calls, and the radius read after each call made under
\* the current configuration, by elapsed time).
VARIABLES sim, call

vars == << sim, call >>

NoValue == "none"

InitCall ==
    [ lastOp |-> "Simulator", arg_radius_mm |-> DefaultRadius, ret |-> NoValue,
      stepCalls |-> 0, radiusLog |-> {<< 0, DefaultRadius >>} ]

\* A configuration made before the first step fixes the radius "after 0
\* steps"; one made mid-run starts an empty log.
CallSetParameters(c, s, radius_mm) ==
    [c EXCEPT !.lastOp = "set_parameters", !.arg_radius_mm = radius_mm,
              !.ret = NoValue,
              !.radiusLog = IF s.physics.m_time = 0
                            THEN {<< 0, get_radius(s.physics) >>} ELSE {}]

CallStep(c, s) ==
    [c EXCEPT !.lastOp = "step", !.ret = NoValue,
              !.stepCalls = @ + 1,
              !.radiusLog = @ \cup {<< s.physics.m_time, get_radius(s.physics) >>}]

CallGet(c, op, value) == [c EXCEPT !.lastOp = op, !.ret = value]

Init ==
    /\ sim = [i \in Instances |-> Simulator]
    /\ call = [i \in Instances |-> InitCall]

\* ------------------------------------------------- one instance's calls
SetParameters(i, f, p, r, g, l) ==
    /\ sim' = [sim EXCEPT ![i] = set_parameters(@, f, p, r, g, l)]
    /\ call' = [call EXCEPT ![i] = CallSetParameters(@, sim'[i], r)]

Step(i, bound) ==
    /\ sim[i].physics.m_time < bound
    /\ sim' = [sim EXCEPT ![i] = step(@)]
    /\ call' = [call EXCEPT ![i] = CallStep(@, sim'[i])]

GetBubbleRadius(i) ==
    /\ call' = [call EXCEPT ![i] = CallGet(@, "get_bubble_radius", get_bubble_radius(sim[i]))]
    /\ UNCHANGED sim

GetPeakTemperature(i) ==
    /\ call' = [call EXCEPT ![i] = CallGet(@, "get_peak_temperature", get_peak_temperature(sim[i]))]
    /\ UNCHANGED sim

GetLightIntensity(i) ==
    /\ call' = [call EXCEPT ![i] = CallGet(@, "get_light_intensity", get_light_intensity(sim[i]))]
    /\ UNCHANGED sim

\* ------------------------------------------ Spec: one Simulator, any calls
Configure ==
    \E f \in FrequencySet, p \in PressureSet, r \in RadiusSet,
       g \in GasSet, l \in LiquidSet : SetParameters(1, f, p, r, g, l)

Advance == Step(1, MaxSteps)

ReadRadius == GetBubbleRadius(1)

ReadTemperature == GetPeakTemperature(1)

ReadLight == GetLightIntensity(1)

Next == Configure \/ Advance \/ ReadRadius \/ ReadTemperature \/ ReadLight

Spec == Init /\ [][Next]_vars

\* ------------------- SpecValid: one Simulator, physical configurations only
ConfigureValid ==
    \E f \in FrequencySet, p \in PressureSet, r \in ValidRadiusSet,
       g \in GasSet, l \in LiquidSet : SetParameters(1, f, p, r, g, l)

NextValid == ConfigureValid \/ Advance \/ ReadRadius \/ ReadTemperature \/ ReadLight

SpecValid == Init /\ [][NextValid]_vars

\* ------- SpecLockstep: two Simulators given the same calls with the same
\* frequency and radius; the first keeps the pressure, gas and liquid it was
\* constructed with, the second is passed any
ConfigureBoth ==
    \E f \in FrequencySet, r \in RadiusSet,
       p \in PressureSet, g \in GasSet, l \in LiquidSet :
        /\ sim' = [sim EXCEPT
                     ![1] = set_parameters(@, f, @.physics.m_pressure_atm, r,
                                           @.physics.m_gas_type, @.physics.m_liquid_type),
                     ![2] = set_parameters(@, f, p, r, g, l)]
        /\ call' = [i \in Instances |-> CallSetParameters(call[i], sim'[i], r)]

AdvanceBoth ==
    /\ \A i \in Instances : sim[i].physics.m_time < MaxSteps
    /\ sim' = [i \in Instances |-> step(sim[i])]
    /\ call' = [i \in Instances |-> CallStep(call[i], sim'[i])]

NextLockstep == ConfigureBoth \/ AdvanceBoth

SpecLockstep == Init /\ [][NextLockstep]_vars

\* --- SpecIndependent: two Simulators, each with a history of its own (a
\* reconfiguration changes frequency and radius and passes the pressure, gas
\* and liquid it already has)
ConfigureEither ==
    \E i \in Instances, f \in FrequencySet, r \in RadiusSet :
        SetParameters(i, f, sim[i].physics.m_pressure_atm, r,
                      sim[i].physics.m_gas_type, sim[i].physics.m_liquid_type)

AdvanceEither == \E i \in Instances : Step(i, MaxPairSteps)

NextIndependent == ConfigureEither \/ AdvanceEither

SpecIndependent == Init /\ [][NextIndependent]_vars

\* ================================================================ claims
Getters == {"get_bubble_radius", "get_peak_temperature", "get_light_intensity"}

\* whether the last simulate_step of s took the expansion branch
InExpansionOf(s) == InExpansion(s.physics.m_time, s.physics.m_frequency_hz)

\* everything a caller can read of s, through the model and through the facade
Outputs(s) ==
    << get_radius(s.physics), get_max_temperature(s.physics),
       get_emitted_light(s.physics), get_bubble_radius(s),
       get_peak_temperature(s), get_light_intensity(s) >>

\* C1: after any step that falls in the expansion phase (t_in_period <
\* 0.9 * period), peak temperature and emitted light are both 0, whatever
\* calls came before.
C1_ExpansionStepZeroesTemperatureAndLight ==
    (call[1].lastOp = "step" /\ InExpansionOf(sim[1]))
        => /\ get_max_temperature(sim[1].physics) = 0
           /\ get_emitted_light(sim[1].physics) = 0

\* C2: right after a configuration with frequency > 0 and ambient radius > 0,
\* made at any point of a run, the model's radius is the ambient radius and
\* its peak temperature and emitted light are 0.
C2_ConfigureResetsModelOutputs ==
    ( /\ call[1].lastOp = "set_parameters"
      /\ sim[1].physics.m_frequency_hz > 0
      /\ call[1].arg_radius_mm > 0 )
        => /\ get_radius(sim[1].physics) = call[1].arg_radius_mm
           /\ get_max_temperature(sim[1].physics) = 0
           /\ get_emitted_light(sim[1].physics) = 0

\* C3: after every step, emitted light is nonzero exactly when the peak
\* temperature of that step is at least 1000.
C3_LightIffTemperatureAtFloor ==
    call[1].lastOp = "step"
        => ( get_emitted_light(sim[1].physics) > 0
               <=> get_max_temperature(sim[1].physics) >= EmissionFloor )

\* C4: two instances that have just stepped to the same elapsed time under the
\* same parameters show the same radius, peak temperature and light, whatever
\* their earlier steps and configurations were.
C4_StepOutputsDependOnTimeAndParametersOnly ==
    ( /\ call[1].lastOp = "step" /\ call[2].lastOp = "step"
      /\ sim[1].physics.m_time = sim[2].physics.m_time
      /\ sim[1].physics.m_frequency_hz = sim[2].physics.m_frequency_hz
      /\ sim[1].physics.m_pressure_atm = sim[2].physics.m_pressure_atm
      /\ sim[1].physics.m_ambient_radius_mm = sim[2].physics.m_ambient_radius_mm
      /\ sim[1].physics.m_gas_type = sim[2].physics.m_gas_type
      /\ sim[1].physics.m_liquid_type = sim[2].physics.m_liquid_type )
        => Outputs(sim[1]) = Outputs(sim[2])

\* C5: elapsed time is the number of step() calls since construction, counted
\* in steps of 1/FPS second, after any interleaving of configurations, steps
\* and reads.
C5_TimeIsStepCount == sim[1].physics.m_time = call[1].stepCalls

\* a configuration made mid-run, the elapsed time kept
C5_Witness ==
    /\ call[1].lastOp = "set_parameters"
    /\ call[1].stepCalls >= 2
    /\ sim[1].physics.m_time >= 2

\* C6: right after a facade configuration, made at any point of a run, the
\* cached snapshot is (the new ambient radius, 0, 0) and the model's current
\* radius is the new ambient radius.
C6_ConfigureResetsSnapshot ==
    call[1].lastOp = "set_parameters"
        => /\ get_bubble_radius(sim[1]) = call[1].arg_radius_mm
           /\ get_peak_temperature(sim[1]) = 0
           /\ get_light_intensity(sim[1]) = 0
           /\ get_radius(sim[1].physics) = call[1].arg_radius_mm
           /\ sim[1].physics.m_ambient_radius_mm = call[1].arg_radius_mm

\* a configuration made after a step that produced light, to another radius
\* than the bubble had
C6_Witness ==
    /\ call[1].lastOp = "set_parameters"
    /\ sim[1].physics.m_time > 0
    /\ get_emitted_light(sim[1].physics) > 0
    /\ get_max_temperature(sim[1].physics) > 0
    /\ call[1].arg_radius_mm > 0

\* C7: every step leaves the cached snapshot equal to the model's radius,
\* peak temperature and light; every accessor returns its field of the
\* snapshot and changes neither the facade nor the model.
C7_SnapshotFollowsStepAndReadsArePure ==
    [][ /\ call'[1].lastOp = "step"
            => /\ get_bubble_radius(sim'[1]) = get_radius(sim'[1].physics)
               /\ get_peak_temperature(sim'[1]) = get_max_temperature(sim'[1].physics)
               /\ get_light_intensity(sim'[1]) = get_emitted_light(sim'[1].physics)
        /\ call'[1].lastOp \in Getters
            => /\ sim' = sim
               /\ call'[1].lastOp = "get_bubble_radius"
                    => call'[1].ret = sim[1].current_bubble_radius
               /\ call'[1].lastOp = "get_peak_temperature"
                    => call'[1].ret = sim[1].current_peak_temperature
               /\ call'[1].lastOp = "get_light_intensity"
                    => call'[1].ret = sim[1].current_light_intensity
      ]_vars

\* the light accessor returning the flash of the last step
C7_Witness ==
    /\ call[1].lastOp = "get_light_intensity"
    /\ call[1].ret > 0
    /\ call[1].ret = get_emitted_light(sim[1].physics)
    /\ sim[1].physics.m_time > 0

\* C8: under a fixed configuration, the radius after N steps equals the radius
\* after N + K steps whenever K steps add a whole number of drive periods
\* (K / FPS = m / frequency).  N counts the steps made under the
\* configuration; N = 0 is the radius set by a configuration made before the
\* first step.
C8_RadiusIsPeriodic ==
    \A a \in call[1].radiusLog, b \in call[1].radiusLog :
        ( /\ a[1] < b[1]
          /\ ((b[1] - a[1]) * sim[1].physics.m_frequency_hz) % period = 0 )
            => a[2] = b[2]

\* C9: two runs given the same calls with the same frequencies and radii, and
\* different pressures, gas labels and liquid labels, show the same radius,
\* peak temperature and light after every call.
C9_LabelsAndPressureAreInert == Outputs(sim[1]) = Outputs(sim[2])

\* a step that produced light in both runs, all three inert parameters differing
C9_Witness ==
    /\ call[1].lastOp = "step" /\ call[2].lastOp = "step"
    /\ sim[1].physics.m_pressure_atm # sim[2].physics.m_pressure_atm
    /\ sim[1].physics.m_gas_type # sim[2].physics.m_gas_type
    /\ sim[1].physics.m_liquid_type # sim[2].physics.m_liquid_type
    /\ get_light_intensity(sim[2]) > 0
    /\ get_bubble_radius(sim[2]) # sim[2].physics.m_ambient_radius_mm

\* C10: when every configuration since construction has frequency > 0 and
\* ambient radius > 0, the collapse radius never falls below half the ambient
\* radius: peak temperature and light are 0 in every state, in the model and
\* in the snapshot.
C10_NoFlashUnderValidConfigurations ==
    /\ get_max_temperature(sim[1].physics) = 0
    /\ get_emitted_light(sim[1].physics) = 0
    /\ get_peak_temperature(sim[1]) = 0
    /\ get_light_intensity(sim[1]) = 0

\* a step at the deepest point of the collapse: the radius is exactly half the
\* ambient radius, and not below it
C10_Witness ==
    /\ call[1].lastOp = "step"
    /\ ~InExpansionOf(sim[1])
    /\ sim[1].physics.m_ambient_radius_mm > 0
    /\ 2 * get_radius(sim[1].physics) = sim[1].physics.m_ambient_radius_mm

=============================================================================
